---- MODULE Spec2Model ----
(***************************************************************************)
(* Brocade NOS switch driver (hil/ext/switches/brocade.py).                *)
(*                                                                         *)
(* The driver keeps no state of its own: every operation is a short        *)
(* sequence of REST requests against the switch.  The model holds the      *)
(* configuration of one switch port (the remote state), and for every      *)
(* caller the operation it is running, its position in that operation and  *)
(* the requests it has issued so far.  Every request of the driver is one  *)
(* action; the switch answers a request atomically.                        *)
(***************************************************************************)
EXTENDS Integers, Sequences, FiniteSets, TLC

\* ------------------------------------------------------------------ bounds
MaxVlan == 2
MaxPortLen == 7

VLANS == 1..MaxVlan
Callers == {"c1", "c2"}
\* A port name is the sequence of its characters.
Interfaces == { <<"1", "/", "0", "/", "1">> }
Modes == {"access", "trunk", "bogus"}

\* --------------------------------------------------------------- XML text
\* A request body is a sequence of tokens: opening tags, closing tags, text.
Open(n) == [t |-> "open", n |-> n]
Close(n) == [t |-> "close", n |-> n]
Text(s) == [t |-> "text", n |-> s]

\* '%s' % vlan
FormatVlan(v) == ToString(v)

\* The number a piece of text denotes, -1 when it is not a number.
IsNumber(s) == \E n \in 0..(MaxVlan + 1) : ToString(n) = s
ParseNumber(s) == IF IsNumber(s) THEN CHOOSE n \in 0..(MaxVlan + 1) : ToString(n) = s ELSE -1

\* The names of the elements open after the first i tokens, innermost last;
\* a closing tag closes the innermost open element whatever its name.
RECURSIVE StackAt(_, _)
StackAt(toks, i) ==
    IF i = 0 THEN <<>>
    ELSE LET s == StackAt(toks, i - 1)
             k == toks[i]
         IN  IF k.t = "open" THEN Append(s, k.n)
             ELSE IF k.t = "close" /\ Len(s) > 0 THEN SubSeq(s, 1, Len(s) - 1)
             ELSE s

\* Every closing tag names the innermost open element and nothing stays open.
WellFormed(toks) ==
    /\ \A i \in 1..Len(toks) :
          toks[i].t = "close" =>
             LET s == StackAt(toks, i - 1)
             IN  Len(s) > 0 /\ s[Len(s)] = toks[i].n
    /\ StackAt(toks, Len(toks)) = <<>>

\* The elements of a body: the path of each element and its text ("" when
\* the element has no text).
Elements(toks) ==
    { [path |-> StackAt(toks, i),
       text |-> IF i < Len(toks) /\ toks[i + 1].t = "text" THEN toks[i + 1].n ELSE ""]
      : i \in { j \in 1..Len(toks) : toks[j].t = "open" } }

HasElement(toks, path) == \E e \in Elements(toks) : e.path = path
ElementText(toks, path) == (CHOOSE e \in Elements(toks) : e.path = path).text

\* ------------------------------------------------------------ request bodies
\* brocade.py:76
ShutdownPayload == << Open("shutdown"), Text("true"), Close("shutdown") >>
\* brocade.py:129
SwitchportPayload == << Open("switchport"), Close("switchport") >>
\* brocade.py:136
ModePayload(mode) ==
    << Open("mode"), Open("vlan-mode"), Text(mode), Close("vlan-mode"), Close("mode") >>
\* The add payload with the element of the remove payload.
AddVlanPayloadRemove(vlan) ==
    << Open("vlan"), Open("remove"), Text(FormatVlan(vlan)), Close("vlan"), Close("vlan") >>
\* brocade.py:201 (the add element is closed by a second </vlan>)
AddVlanPayload(vlan) ==
    << Open("vlan"), Open("add"), Text(FormatVlan(vlan)), Close("vlan"), Close("vlan") >>
\* brocade.py:212
RemoveVlanPayload(vlan) ==
    << Open("vlan"), Open("remove"), Text(FormatVlan(vlan)), Close("remove"), Close("vlan") >>
\* brocade.py:222
RemoveAllPayload ==
    << Open("vlan"), Open("none"), Text("true"), Close("none"), Close("vlan") >>
\* brocade.py:235
NativeVlanPayload(vlan) ==
    << Open("trunk"), Open("native-vlan"), Text(FormatVlan(vlan)), Close("native-vlan"),
       Close("trunk") >>

\* ----------------------------------------------------------------- port names
\* The characters port names are made of here: a digit, the separator, a
\* letter and the newline.
PortChars == {"1", "/", "x", "\n"}
PortStrings == UNION { [1..n -> PortChars] : n \in 0..MaxPortLen }

\* \d
IsDigit(ch) == ch \in {"0", "1", "2", "3", "4", "5", "6", "7", "8", "9"}

\* \d+ at position i: the position of its last digit, i - 1 when there is none.
RECURSIVE DigitsEnd(_, _)
DigitsEnd(s, i) ==
    IF i <= Len(s) /\ IsDigit(s[i]) THEN DigitsEnd(s, i + 1) ELSE i - 1

\* $ after position i: the end of the string, or a newline that ends it.
AtDollar(s, i) == i = Len(s) \/ (i + 1 = Len(s) /\ s[Len(s)] = "\n")

\* val.match(port) for val = re.compile(r'^\d+/\d+(/\d+)?$')
MatchPort(s) ==
    LET a == DigitsEnd(s, 1)
        b == DigitsEnd(s, a + 2)
        c == DigitsEnd(s, b + 2)
    IN  /\ a >= 1
        /\ a + 1 <= Len(s) /\ s[a + 1] = "/"
        /\ b >= a + 2
        /\ \/ AtDollar(s, b)
           \/ /\ b + 1 <= Len(s) /\ s[b + 1] = "/"
              /\ c >= b + 2
              /\ AtDollar(s, c)

\* ------------------------------------------------------------------- URLs
\* _construct_url: the interface and the resource path below it.
ConstructUrl(interface, suffix) ==
    [ifc |-> interface,
     path |-> IF suffix # <<>> THEN <<"switchport">> \o suffix ELSE <<>>]

\* url + "/shutdown"
UrlPlus(url, seg) == [url EXCEPT !.path = @ \o <<seg>>]

Request(method, url, data) == [method |-> method, url |-> url, data |-> data]

\* ------------------------------------------------------- response documents
\* A response document is the set of its leaves: the path of a leaf below the
\* root element and its text, a sequence of characters (numbers, words and
\* punctuation are kept whole).
Leaf(path, text) == [path |-> path, text |-> text]

\* _construct_tag
ConstructTag(name) == name

\* root.find(tag1).find(tag2)...: the text of the leaf, or the absence of it.
HasLeaf(doc, path) == \E l \in doc : l.path = path
LeafText(doc, path) == (CHOOSE l \in doc : l.path = path).text

\* ----------------------------------------------------------- VLAN-range codec
\* How the switch writes a set of VLANs: ascending, maximal runs as lo-hi.
RECURSIVE EncodeVlans(_)
EncodeVlans(S) ==
    IF S = {} THEN <<>>
    ELSE LET lo == CHOOSE x \in S : \A y \in S : x <= y
             hi == CHOOSE x \in S : /\ (lo..x) \subseteq S
                                    /\ (x + 1) \notin S
                                    /\ x >= lo
             item == IF lo = hi THEN << ToString(lo) >>
                     ELSE << ToString(lo), "-", ToString(hi) >>
             rest == S \ (lo..hi)
         IN  IF rest = {} THEN item ELSE item \o <<",">> \o EncodeVlans(rest)

\* ItemLen for the pattern \d+ without its (-\d+)? part.
ItemLenNoRange(text, i) ==
    IF i > Len(text) \/ ~IsNumber(text[i]) THEN 0
    ELSE 1

\* re.search(r'(\d+(-\d+)?)(,\d+(-\d+)?)*', vlans): the first, longest match.
\* The length of \d+(-\d+)? at position i, 0 when there is none.
ItemLen(text, i) ==
    IF i > Len(text) \/ ~IsNumber(text[i]) THEN 0
    ELSE IF i + 2 <= Len(text) /\ text[i + 1] = "-" /\ IsNumber(text[i + 2]) THEN 3
    ELSE 1

\* The end of (,\d+(-\d+)?)* starting after position i.
RECURSIVE ItemsEnd(_, _)
ItemsEnd(text, i) ==
    IF i + 1 <= Len(text) /\ text[i + 1] = "," /\ ItemLen(text, i + 2) > 0
    THEN ItemsEnd(text, i + 1 + ItemLen(text, i + 2))
    ELSE i

HasMatch(text) == \E i \in 1..Len(text) : IsNumber(text[i])
SearchVlans(text) ==
    LET start == CHOOSE i \in 1..Len(text) :
                     /\ IsNumber(text[i])
                     /\ \A j \in 1..(i - 1) : ~IsNumber(text[j])
    IN  SubSeq(text, start, ItemsEnd(text, start + ItemLen(text, start) - 1))

\* parse_vlans: each comma-separated item is a number or an inclusive range;
\* the VLANs in the order they are written.
RECURSIVE ParseVlans(_)
ParseVlans(text) ==
    IF text = <<>> THEN <<>>
    ELSE LET n == ItemLen(text, 1)
             lo == ParseNumber(text[1])
             hi == IF n = 3 THEN ParseNumber(text[3]) ELSE lo
             here == [k \in 1..(hi - lo + 1) |-> lo + k - 1]
         IN  IF n = 0 THEN <<>>
             ELSE IF Len(text) > n THEN here \o ParseVlans(SubSeq(text, n + 2, Len(text)))
             ELSE here

\* -------------------------------------------------------------- the switch
\* The configuration of the port: the shutdown leaf, the switchport
\* container, and below it the mode and, in trunk mode, the trunk subtree
\* (allowed VLANs, native VLAN (0: none), tagging of the native VLAN).
NoTrunk(d) == d.allowed = {} /\ d.native = 0 /\ ~d.tag

DeviceStates ==
    { d \in [shutdown : {"absent", "true", "false"}, switchport : BOOLEAN,
             mode : {"access", "trunk"}, allowed : SUBSET VLANS,
             native : 0..MaxVlan, tag : BOOLEAN] :
        /\ ~d.switchport => d.mode = "access"
        /\ d.mode = "access" => NoTrunk(d) }

\* The name of the port the switch has.
DevicePort == <<"1", "/", "0", "/", "1">>

IsTrunk(d) == d.switchport /\ d.mode = "trunk"

Answer(status, d, doc) == [status |-> status, dev |-> d, doc |-> doc]

ShutdownDoc(d) ==
    IF d.shutdown = "absent" THEN {} ELSE { Leaf(<<"shutdown">>, << d.shutdown >>) }

ModeDoc(d) ==
    IF d.switchport THEN { Leaf(<<"vlan-mode">>, << d.mode >>) } ELSE {}

TrunkDoc(d) ==
    (IF IsTrunk(d) /\ d.allowed # {}
        THEN { Leaf(<<"allowed", "vlan", "add">>, EncodeVlans(d.allowed)) } ELSE {})
    \cup
    (IF IsTrunk(d) /\ d.native # 0
        THEN { Leaf(<<"native-vlan">>, << ToString(d.native) >>) } ELSE {})

\* What the switch does with a request it accepts for processing.
Handle(req, d) ==
    LET m == req.method
        p == req.url.path
        b == req.data
    IN
    IF req.url.ifc # DevicePort THEN { Answer(404, d, {}) }
    ELSE IF m = "GET" /\ p = <<>> THEN { Answer(200, d, ShutdownDoc(d)) }
    ELSE IF m = "GET" /\ p = <<"switchport", "mode">> THEN { Answer(200, d, ModeDoc(d)) }
    ELSE IF m = "GET" /\ p = <<"switchport", "trunk">> THEN { Answer(200, d, TrunkDoc(d)) }
    ELSE IF m = "POST" /\ p = <<>> /\ HasElement(b, <<"shutdown">>) THEN
        IF ElementText(b, <<"shutdown">>) # "true" THEN { Answer(400, d, {}) }
        ELSE IF d.shutdown = "true" THEN { Answer(409, d, {}) }
        ELSE { Answer(200, [d EXCEPT !.shutdown = "true"], {}) }
    ELSE IF m = "POST" /\ p = <<>> /\ HasElement(b, <<"switchport">>) THEN
        IF d.switchport THEN { Answer(409, d, {}) }
        ELSE { Answer(200, [d EXCEPT !.switchport = TRUE], {}) }
    ELSE IF m = "DELETE" /\ p = <<"shutdown">> THEN
        IF d.shutdown = "absent" THEN { Answer(404, d, {}) }
        ELSE { Answer(200, [d EXCEPT !.shutdown = "absent"], {}) }
    ELSE IF m = "PUT" /\ p = <<"switchport", "mode">> /\ HasElement(b, <<"mode", "vlan-mode">>) THEN
        LET mode == ElementText(b, <<"mode", "vlan-mode">>) IN
        IF ~d.switchport THEN { Answer(404, d, {}) }
        ELSE IF mode = "access" THEN
            { Answer(200, [d EXCEPT !.mode = "access", !.allowed = {}, !.native = 0,
                                    !.tag = FALSE], {}) }
        ELSE IF mode = "trunk" THEN
            IF d.mode = "trunk" THEN { Answer(200, d, {}) }
            ELSE { Answer(200, [d EXCEPT !.mode = "trunk", !.tag = t], {}) : t \in BOOLEAN }
        ELSE { Answer(400, d, {}) }
    ELSE IF m = "PUT" /\ p = <<"switchport", "trunk", "allowed", "vlan">> THEN
        IF ~IsTrunk(d) THEN { Answer(404, d, {}) }
        ELSE IF HasElement(b, <<"vlan", "add">>) THEN
            LET v == ParseNumber(ElementText(b, <<"vlan", "add">>)) IN
            IF v \in VLANS THEN { Answer(200, [d EXCEPT !.allowed = @ \cup {v}], {}) }
            ELSE { Answer(400, d, {}) }
        ELSE IF HasElement(b, <<"vlan", "remove">>) THEN
            LET v == ParseNumber(ElementText(b, <<"vlan", "remove">>)) IN
            IF v \in d.allowed THEN { Answer(200, [d EXCEPT !.allowed = @ \ {v}], {}) }
            ELSE { Answer(200, d, {}), Answer(404, d, {}) }
        ELSE IF HasElement(b, <<"vlan", "none">>) THEN
            { Answer(200, [d EXCEPT !.allowed = {}], {}) }
        ELSE { Answer(400, d, {}) }
    ELSE IF m = "PUT" /\ p = <<"switchport", "trunk">> /\ HasElement(b, <<"trunk", "native-vlan">>) THEN
        LET v == ParseNumber(ElementText(b, <<"trunk", "native-vlan">>)) IN
        IF ~IsTrunk(d) THEN { Answer(404, d, {}) }
        ELSE IF v \in VLANS THEN { Answer(200, [d EXCEPT !.native = v], {}) }
        ELSE { Answer(400, d, {}) }
    ELSE IF m = "DELETE" /\ p = <<"switchport", "trunk", "native-vlan">> THEN
        IF d.native = 0 THEN { Answer(404, d, {}) }
        ELSE { Answer(200, [d EXCEPT !.native = 0], {}) }
    ELSE IF m = "DELETE" /\ p = <<"switchport", "trunk", "tag", "native-vlan">> THEN
        IF ~d.tag THEN { Answer(404, d, {}) }
        ELSE { Answer(200, [d EXCEPT !.tag = FALSE], {}) }
    ELSE { Answer(404, d, {}) }

\* Every answer the switch can give to a request: an internal error that
\* changes nothing; for a body that is not well-formed XML, a rejection; or
\* the outcome of processing it.
Device(req, d) ==
    { Answer(500, d, {}) }
    \cup (IF WellFormed(req.data) THEN {} ELSE { Answer(400, d, {}) })
    \cup Handle(req, d)

\* --------------------------------------------------------------- the driver
VARIABLES
    dev,      \* the configuration of the port on the switch
    pc,       \* per caller: where it is in the operation it runs
    call,     \* per caller: the operation it runs and its arguments
    pre,      \* per caller: the configuration of the port when the call began
    trace,    \* per caller: the requests of this call and the switch's answers
    result,   \* per caller: "none" while running, then "ok" or the error raised
    ret,      \* per caller: the value returned
    prev      \* the last call that returned

vars == << dev, pc, call, pre, trace, result, ret, prev >>

Call(op, interface, mode, vlan) == [op |-> op, ifc |-> interface, mode |-> mode, vlan |-> vlan]

NoCall == Call("", <<>>, "", 0)
NoDev == [shutdown |-> "absent", switchport |-> FALSE, mode |-> "access", allowed |-> {},
          native |-> 0, tag |-> FALSE]
NoRet == [kind |-> "none", b |-> FALSE, s |-> "", l |-> <<>>]
NoPrev == [op |-> "", mode |-> "", vlan |-> 0, result |-> "none", allowed |-> {}]

\* The operations of the driver a caller can invoke, with their arguments.
Calls ==
    { Call(op, i, "", 0) :
        op \in {"_port_shutdown", "_is_interface_off", "_get_mode", "_get_vlans",
                "_get_native_vlan", "_remove_all_vlans_from_trunk", "_remove_native_vlan"},
        i \in Interfaces }
    \cup { Call("_enable_and_set_mode", i, m, 0) : i \in Interfaces, m \in Modes }
    \cup { Call(op, i, "", v) :
             op \in {"_add_vlan_to_trunk", "_remove_vlan_from_trunk", "_set_native_vlan"},
             i \in Interfaces, v \in VLANS }

\* Entry, with _add_vlan_to_trunk going straight to its own request.
EntrySkipMode(op) ==
    CASE op = "_port_shutdown" -> "port_shutdown"
      [] op = "_is_interface_off" -> "is_interface_off"
      [] op = "_get_mode" -> "get_mode"
      [] op = "_enable_and_set_mode" -> "is_interface_off"
      [] op = "_get_vlans" -> "get_vlans"
      [] op = "_get_native_vlan" -> "get_native_vlan"
      [] op = "_add_vlan_to_trunk" -> "add_vlan"
      [] op = "_remove_vlan_from_trunk" -> "remove_vlan"
      [] op = "_remove_all_vlans_from_trunk" -> "remove_all_vlans"
      [] op = "_set_native_vlan" -> "is_interface_off"
      [] op = "_remove_native_vlan" -> "remove_native_vlan"

\* Entry, with _add_vlan_to_trunk and _set_native_vlan skipping lines 125-126.
EntryNoRead(op) ==
    CASE op = "_port_shutdown" -> "port_shutdown"
      [] op = "_is_interface_off" -> "is_interface_off"
      [] op = "_get_mode" -> "get_mode"
      [] op = "_enable_and_set_mode" -> "is_interface_off"
      [] op = "_get_vlans" -> "get_vlans"
      [] op = "_get_native_vlan" -> "get_native_vlan"
      [] op = "_add_vlan_to_trunk" -> "switchport"
      [] op = "_remove_vlan_from_trunk" -> "remove_vlan"
      [] op = "_remove_all_vlans_from_trunk" -> "remove_all_vlans"
      [] op = "_set_native_vlan" -> "switchport"
      [] op = "_remove_native_vlan" -> "remove_native_vlan"

\* The first statement of each operation that issues a request.
Entry(op) ==
    CASE op = "_port_shutdown" -> "port_shutdown"
      [] op = "_is_interface_off" -> "is_interface_off"
      [] op = "_get_mode" -> "get_mode"
      [] op = "_enable_and_set_mode" -> "is_interface_off"
      [] op = "_get_vlans" -> "get_vlans"
      [] op = "_get_native_vlan" -> "get_native_vlan"
      [] op = "_add_vlan_to_trunk" -> "is_interface_off"
      [] op = "_remove_vlan_from_trunk" -> "remove_vlan"
      [] op = "_remove_all_vlans_from_trunk" -> "remove_all_vlans"
      [] op = "_set_native_vlan" -> "is_interface_off"
      [] op = "_remove_native_vlan" -> "remove_native_vlan"

\* ModeArg, with the callers of lines 199 and 232 asking for 'access'.
ModeArgAccess(k) == IF k.op = "_enable_and_set_mode" THEN k.mode ELSE "access"

\* The mode _enable_and_set_mode runs with: its argument, or 'trunk' when
\* _add_vlan_to_trunk (line 199) or _set_native_vlan (line 232) calls it.
ModeArg(k) == IF k.op = "_enable_and_set_mode" THEN k.mode ELSE "trunk"

\* _make_request raises SwitchError for an error status the caller did not
\* declare acceptable.
Raises(status, acceptable) == status >= 400 /\ status \notin acceptable

Init ==
    /\ dev \in DeviceStates
    /\ pc = [c \in Callers |-> "idle"]
    /\ call = [c \in Callers |-> NoCall]
    /\ pre = [c \in Callers |-> NoDev]
    /\ trace = [c \in Callers |-> <<>>]
    /\ result = [c \in Callers |-> "none"]
    /\ ret = [c \in Callers |-> NoRet]
    /\ prev = NoPrev

\* A caller invokes an operation; calls on the interface are serialized by
\* the owner of the driver, so no other call is running.
Begin(c) ==
    /\ \A o \in Callers : pc[o] = "idle"
    /\ \E k \in Calls :
          /\ call' = [call EXCEPT ![c] = k]
          /\ pc' = [pc EXCEPT ![c] = Entry(k.op)]
    /\ pre' = [pre EXCEPT ![c] = dev]
    /\ trace' = [trace EXCEPT ![c] = <<>>]
    /\ result' = [result EXCEPT ![c] = "none"]
    /\ ret' = [ret EXCEPT ![c] = NoRet]
    /\ UNCHANGED << dev, prev >>

\* The number of requests the running calls have issued so far.
RECURSIVE Issued(_)
Issued(cs) ==
    IF cs = {} THEN 0
    ELSE LET o == CHOOSE x \in cs : TRUE
         IN  Len(trace[o]) + Issued(cs \ {o})

\* The request reaches the switch, which answers with a; seq is the position
\* of the request among those of the running calls.
Exchange(c, req, a) ==
    /\ a \in Device(req, dev)
    /\ dev' = a.dev
    /\ trace' = [trace EXCEPT ![c] = Append(@, [req |-> req, status |-> a.status, doc |-> a.doc,
                                               seq |-> Issued(Callers) + 1])]

\* The operation ends: it returns value, or raises error.
Finish(c, outcome, value) ==
    /\ pc' = [pc EXCEPT ![c] = "done"]
    /\ result' = [result EXCEPT ![c] = outcome]
    /\ ret' = [ret EXCEPT ![c] = value]

\* The operation goes on at the next statement.
Goto(c, next) ==
    /\ pc' = [pc EXCEPT ![c] = next]
    /\ UNCHANGED << result, ret >>

\* acceptable_error_codes of the requests that declare some (the ...None are
\* the same requests without the argument)
ShutdownAcceptableNone == {}
ShutdownAcceptable == {409}
SwitchportAcceptableNone == {}
SwitchportAcceptable == {409}
NativeTagAcceptable == {404}

\* _port_shutdown
PortShutdown(c) ==
    /\ pc[c] = "port_shutdown"
    /\ \E a \in Device(Request("POST", ConstructUrl(call[c].ifc, <<>>), ShutdownPayload), dev) :
          /\ Exchange(c, Request("POST", ConstructUrl(call[c].ifc, <<>>), ShutdownPayload), a)
          /\ IF Raises(a.status, ShutdownAcceptable) THEN Finish(c, "SwitchError", NoRet)
             ELSE Finish(c, "ok", NoRet)
    /\ UNCHANGED << call, pre, prev >>

\* InterfaceOff, with the test of line 89 inverted.
InterfaceOffInverted(doc) ==
    IF HasLeaf(doc, << ConstructTag("shutdown") >>) THEN "False"
    ELSE "True"

\* InterfaceOff, with every value other than "true" read as not shut down.
InterfaceOffLenient(doc) ==
    IF ~HasLeaf(doc, << ConstructTag("shutdown") >>) THEN "False"
    ELSE IF LeafText(doc, << ConstructTag("shutdown") >>) = << "true" >> THEN "True"
    ELSE "False"

\* What _is_interface_off makes of the document: "False", "True" or "error".
InterfaceOff(doc) ==
    IF ~HasLeaf(doc, << ConstructTag("shutdown") >>) THEN "False"
    ELSE IF LeafText(doc, << ConstructTag("shutdown") >>) = << "true" >> THEN "True"
    ELSE "error"

\* _is_interface_off, called by itself or at line 125 of _enable_and_set_mode
IsInterfaceOff(c) ==
    /\ pc[c] = "is_interface_off"
    /\ \E a \in Device(Request("GET", ConstructUrl(call[c].ifc, <<>>), <<>>), dev) :
          /\ Exchange(c, Request("GET", ConstructUrl(call[c].ifc, <<>>), <<>>), a)
          /\ IF Raises(a.status, {}) \/ InterfaceOff(a.doc) = "error"
                THEN Finish(c, "SwitchError", NoRet)
             ELSE IF call[c].op = "_is_interface_off"
                THEN Finish(c, "ok", [NoRet EXCEPT !.kind = "bool",
                                                   !.b = (InterfaceOff(a.doc) = "True")])
             ELSE IF InterfaceOff(a.doc) = "True" THEN Goto(c, "no_shutdown")
             ELSE Goto(c, "switchport")
    /\ UNCHANGED << call, pre, prev >>

\* _enable_and_set_mode, line 126: turn the port on
EnableNoShutdown(c) ==
    /\ pc[c] = "no_shutdown"
    /\ \E a \in Device(Request("DELETE", UrlPlus(ConstructUrl(call[c].ifc, <<>>), "shutdown"), <<>>), dev) :
          /\ Exchange(c, Request("DELETE", UrlPlus(ConstructUrl(call[c].ifc, <<>>), "shutdown"), <<>>), a)
          /\ IF Raises(a.status, {}) THEN Finish(c, "SwitchError", NoRet)
             ELSE Goto(c, "switchport")
    /\ UNCHANGED << call, pre, prev >>

\* _enable_and_set_mode, lines 129-131: enable switching
EnableSwitchport(c) ==
    /\ pc[c] = "switchport"
    /\ \E a \in Device(Request("POST", ConstructUrl(call[c].ifc, <<>>), SwitchportPayload), dev) :
          /\ Exchange(c, Request("POST", ConstructUrl(call[c].ifc, <<>>), SwitchportPayload), a)
          /\ IF Raises(a.status, SwitchportAcceptable) THEN Finish(c, "SwitchError", NoRet)
             ELSE Goto(c, "set_mode")
    /\ UNCHANGED << call, pre, prev >>

\* AfterMode, with _set_native_vlan leaving out _disable_native_tag.
AfterModeSkipTag(op) ==
    CASE op = "_add_vlan_to_trunk" -> "add_vlan"
      [] op = "_set_native_vlan" -> "set_native_vlan"
      [] OTHER -> "done"

\* AfterMode, with _add_vlan_to_trunk going on as _set_native_vlan does.
AfterModeAddViaTag(op) ==
    CASE op = "_add_vlan_to_trunk" -> "disable_native_tag"
      [] op = "_set_native_vlan" -> "disable_native_tag"
      [] OTHER -> "done"

\* Where the caller of _enable_and_set_mode goes on when it returns.
AfterMode(op) ==
    CASE op = "_add_vlan_to_trunk" -> "add_vlan"
      [] op = "_set_native_vlan" -> "disable_native_tag"
      [] OTHER -> "done"

\* _enable_and_set_mode, lines 134-137: set the mode
EnableSetMode(c) ==
    /\ pc[c] = "set_mode"
    /\ ModeArg(call[c]) \in {"access", "trunk"}
    /\ \E a \in Device(Request("PUT", ConstructUrl(call[c].ifc, <<"mode">>), ModePayload(ModeArg(call[c]))), dev) :
          /\ Exchange(c, Request("PUT", ConstructUrl(call[c].ifc, <<"mode">>), ModePayload(ModeArg(call[c]))), a)
          /\ IF Raises(a.status, {}) THEN Finish(c, "SwitchError", NoRet)
             ELSE IF AfterMode(call[c].op) = "done" THEN Finish(c, "ok", NoRet)
             ELSE Goto(c, AfterMode(call[c].op))
    /\ UNCHANGED << call, pre, prev >>

\* _enable_and_set_mode, lines 138-139: the mode is neither access nor trunk
EnableInvalidMode(c) ==
    /\ pc[c] = "set_mode"
    /\ ModeArg(call[c]) \notin {"access", "trunk"}
    /\ Finish(c, "AssertionError", NoRet)
    /\ UNCHANGED << dev, trace, call, pre, prev >>

\* _get_mode
GetMode(c) ==
    /\ pc[c] = "get_mode"
    /\ \E a \in Device(Request("GET", ConstructUrl(call[c].ifc, <<"mode">>), <<>>), dev) :
          /\ Exchange(c, Request("GET", ConstructUrl(call[c].ifc, <<"mode">>), <<>>), a)
          /\ IF Raises(a.status, {}) THEN Finish(c, "SwitchError", NoRet)
             ELSE IF ~HasLeaf(a.doc, << ConstructTag("vlan-mode") >>)
                THEN Finish(c, "AttributeError", NoRet)
             ELSE Finish(c, "ok", [NoRet EXCEPT !.kind = "str",
                                                !.s = LeafText(a.doc, << ConstructTag("vlan-mode") >>)[1]])
    /\ UNCHANGED << call, pre, prev >>

\* AllowedPath, naming the native-vlan element instead.
AllowedPathNative == << ConstructTag("native-vlan") >>
AllowedPath == << ConstructTag("allowed"), ConstructTag("vlan"), ConstructTag("add") >>

\* What _get_vlans returns for a document: the list of ('vlan/x', x).
VlanList(doc) ==
    IF ~HasLeaf(doc, AllowedPath) THEN <<>>
    ELSE IF ~HasMatch(LeafText(doc, AllowedPath)) THEN <<>>
    ELSE LET vlan_list == ParseVlans(SearchVlans(LeafText(doc, AllowedPath)))
         IN  [i \in 1..Len(vlan_list) |->
                 [tag |-> "vlan/" \o ToString(vlan_list[i]), vlan |-> ToString(vlan_list[i])]]

\* _get_vlans with an except clause that catches every exception.
GetVlansCatchAll(c) ==
    /\ pc[c] = "get_vlans"
    /\ \E a \in Device(Request("GET", ConstructUrl(call[c].ifc, <<"trunk">>), <<>>), dev) :
          /\ Exchange(c, Request("GET", ConstructUrl(call[c].ifc, <<"trunk">>), <<>>), a)
          /\ IF Raises(a.status, {}) THEN Finish(c, "ok", [NoRet EXCEPT !.kind = "list"])
             ELSE IF HasLeaf(a.doc, AllowedPath) /\ LeafText(a.doc, AllowedPath) = <<>>
                THEN Finish(c, "ok", [NoRet EXCEPT !.kind = "list"])
             ELSE Finish(c, "ok", [NoRet EXCEPT !.kind = "list", !.l = VlanList(a.doc)])
    /\ UNCHANGED << call, pre, prev >>

\* _get_vlans
GetVlans(c) ==
    /\ pc[c] = "get_vlans"
    /\ \E a \in Device(Request("GET", ConstructUrl(call[c].ifc, <<"trunk">>), <<>>), dev) :
          /\ Exchange(c, Request("GET", ConstructUrl(call[c].ifc, <<"trunk">>), <<>>), a)
          /\ IF Raises(a.status, {}) THEN Finish(c, "SwitchError", NoRet)
             ELSE IF HasLeaf(a.doc, AllowedPath) /\ LeafText(a.doc, AllowedPath) = <<>>
                THEN Finish(c, "TypeError", NoRet)
             ELSE Finish(c, "ok", [NoRet EXCEPT !.kind = "list", !.l = VlanList(a.doc)])
    /\ UNCHANGED << call, pre, prev >>

\* NativeVlan looking for an element the document never has.
NativeVlanWrongTag(doc) ==
    IF ~HasLeaf(doc, << ConstructTag("native") >>) THEN NoRet
    ELSE [NoRet EXCEPT !.kind = "tuple",
                       !.l = << [tag |-> "vlan/native",
                                 vlan |-> LeafText(doc, << ConstructTag("native") >>)[1]] >>]

\* What _get_native_vlan returns for a document: ('vlan/native', vlan) or None.
NativeVlan(doc) ==
    IF ~HasLeaf(doc, << ConstructTag("native-vlan") >>) THEN NoRet
    ELSE [NoRet EXCEPT !.kind = "tuple",
                       !.l = << [tag |-> "vlan/native",
                                 vlan |-> LeafText(doc, << ConstructTag("native-vlan") >>)[1]] >>]

\* _get_native_vlan
GetNativeVlan(c) ==
    /\ pc[c] = "get_native_vlan"
    /\ \E a \in Device(Request("GET", ConstructUrl(call[c].ifc, <<"trunk">>), <<>>), dev) :
          /\ Exchange(c, Request("GET", ConstructUrl(call[c].ifc, <<"trunk">>), <<>>), a)
          /\ IF Raises(a.status, {}) THEN Finish(c, "SwitchError", NoRet)
             ELSE Finish(c, "ok", NativeVlan(a.doc))
    /\ UNCHANGED << call, pre, prev >>

\* _add_vlan_to_trunk, lines 200-202, after _enable_and_set_mode returned
AddVlan(c) ==
    /\ pc[c] = "add_vlan"
    /\ \E a \in Device(Request("PUT", ConstructUrl(call[c].ifc, <<"trunk", "allowed", "vlan">>),
                               AddVlanPayload(call[c].vlan)), dev) :
          /\ Exchange(c, Request("PUT", ConstructUrl(call[c].ifc, <<"trunk", "allowed", "vlan">>),
                                 AddVlanPayload(call[c].vlan)), a)
          /\ IF Raises(a.status, {}) THEN Finish(c, "SwitchError", NoRet)
             ELSE Finish(c, "ok", NoRet)
    /\ UNCHANGED << call, pre, prev >>

\* _remove_vlan_from_trunk
RemoveVlan(c) ==
    /\ pc[c] = "remove_vlan"
    /\ \E a \in Device(Request("PUT", ConstructUrl(call[c].ifc, <<"trunk", "allowed", "vlan">>),
                               RemoveVlanPayload(call[c].vlan)), dev) :
          /\ Exchange(c, Request("PUT", ConstructUrl(call[c].ifc, <<"trunk", "allowed", "vlan">>),
                                 RemoveVlanPayload(call[c].vlan)), a)
          /\ IF Raises(a.status, {}) THEN Finish(c, "SwitchError", NoRet)
             ELSE Finish(c, "ok", NoRet)
    /\ UNCHANGED << call, pre, prev >>

\* _remove_all_vlans_from_trunk: requests.put, whose status nobody looks at
RemoveAllVlans(c) ==
    /\ pc[c] = "remove_all_vlans"
    /\ \E a \in Device(Request("PUT", ConstructUrl(call[c].ifc, <<"trunk", "allowed", "vlan">>),
                               RemoveAllPayload), dev) :
          /\ Exchange(c, Request("PUT", ConstructUrl(call[c].ifc, <<"trunk", "allowed", "vlan">>),
                                 RemoveAllPayload), a)
          /\ Finish(c, "ok", NoRet)
    /\ UNCHANGED << call, pre, prev >>

\* _disable_native_tag, called at line 233 of _set_native_vlan
DisableNativeTag(c) ==
    /\ pc[c] = "disable_native_tag"
    /\ \E a \in Device(Request("DELETE", ConstructUrl(call[c].ifc, <<"trunk", "tag", "native-vlan">>),
                               <<>>), dev) :
          /\ Exchange(c, Request("DELETE", ConstructUrl(call[c].ifc, <<"trunk", "tag", "native-vlan">>),
                                 <<>>), a)
          /\ IF Raises(a.status, NativeTagAcceptable) THEN Finish(c, "SwitchError", NoRet)
             ELSE Goto(c, "set_native_vlan")
    /\ UNCHANGED << call, pre, prev >>

\* _set_native_vlan, lines 234-236
SetNativeVlan(c) ==
    /\ pc[c] = "set_native_vlan"
    /\ \E a \in Device(Request("PUT", ConstructUrl(call[c].ifc, <<"trunk">>),
                               NativeVlanPayload(call[c].vlan)), dev) :
          /\ Exchange(c, Request("PUT", ConstructUrl(call[c].ifc, <<"trunk">>),
                                 NativeVlanPayload(call[c].vlan)), a)
          /\ IF Raises(a.status, {}) THEN Finish(c, "SwitchError", NoRet)
             ELSE Finish(c, "ok", NoRet)
    /\ UNCHANGED << call, pre, prev >>

\* _remove_native_vlan
RemoveNativeVlan(c) ==
    /\ pc[c] = "remove_native_vlan"
    /\ \E a \in Device(Request("DELETE", ConstructUrl(call[c].ifc, <<"trunk", "native-vlan">>),
                               <<>>), dev) :
          /\ Exchange(c, Request("DELETE", ConstructUrl(call[c].ifc, <<"trunk", "native-vlan">>),
                                 <<>>), a)
          /\ IF Raises(a.status, {}) THEN Finish(c, "SwitchError", NoRet)
             ELSE Finish(c, "ok", NoRet)
    /\ UNCHANGED << call, pre, prev >>

\* validate_port_name
ValidatePortName(c) ==
    /\ pc[c] = "validate_port_name"
    /\ IF ~MatchPort(call[c].ifc) THEN Finish(c, "BadArgumentError", NoRet)
       ELSE Finish(c, "ok", NoRet)
    /\ UNCHANGED << dev, trace, call, pre, prev >>

\* What a reader would report for configuration d when the switch answers it.
ReportedVlans(d) == LET l == VlanList(TrunkDoc(d)) IN { l[i].vlan : i \in 1..Len(l) }
ReportedNative(d) == NativeVlan(TrunkDoc(d))

\* The caller takes the outcome; the call becomes the last call.
Return(c) ==
    /\ pc[c] = "done"
    /\ prev' = [op |-> call[c].op, mode |-> call[c].mode, vlan |-> call[c].vlan,
                result |-> result[c],
                allowed |-> IF call[c].op = "_add_vlan_to_trunk" THEN ReportedVlans(pre[c]) ELSE {}]
    /\ pc' = [pc EXCEPT ![c] = "idle"]
    /\ call' = [call EXCEPT ![c] = NoCall]
    /\ pre' = [pre EXCEPT ![c] = NoDev]
    /\ trace' = [trace EXCEPT ![c] = <<>>]
    /\ result' = [result EXCEPT ![c] = "none"]
    /\ ret' = [ret EXCEPT ![c] = NoRet]
    /\ UNCHANGED dev

Next ==
    \E c \in Callers :
        \/ Begin(c)
        \/ PortShutdown(c)
        \/ IsInterfaceOff(c)
        \/ GetMode(c)
        \/ EnableNoShutdown(c)
        \/ EnableSwitchport(c)
        \/ EnableSetMode(c)
        \/ EnableInvalidMode(c)
        \/ GetVlans(c)
        \/ GetNativeVlan(c)
        \/ AddVlan(c)
        \/ RemoveVlan(c)
        \/ RemoveAllVlans(c)
        \/ DisableNativeTag(c)
        \/ SetNativeVlan(c)
        \/ RemoveNativeVlan(c)
        \/ Return(c)

Spec == Init /\ [][Next]_vars

\* ------------------------------------------- callers passing any port name
\* Names that are not port names.
MalformedPorts == { <<"1">>, <<"1", "/", "x">> }

\* A caller invokes an operation with whatever port name it has; the driver
\* has no say in it.
BeginAnyPort(c) ==
    /\ \A o \in Callers : pc[o] = "idle"
    /\ \E k \in Calls, port \in Interfaces \cup MalformedPorts :
          /\ call' = [call EXCEPT ![c] = [k EXCEPT !.ifc = port]]
          /\ pc' = [pc EXCEPT ![c] = Entry(k.op)]
    /\ pre' = [pre EXCEPT ![c] = dev]
    /\ trace' = [trace EXCEPT ![c] = <<>>]
    /\ result' = [result EXCEPT ![c] = "none"]
    /\ ret' = [ret EXCEPT ![c] = NoRet]
    /\ UNCHANGED << dev, prev >>

NextAnyPort ==
    \E c \in Callers :
        \/ BeginAnyPort(c)
        \/ PortShutdown(c)
        \/ IsInterfaceOff(c)
        \/ GetMode(c)
        \/ EnableNoShutdown(c)
        \/ EnableSwitchport(c)
        \/ EnableSetMode(c)
        \/ EnableInvalidMode(c)
        \/ GetVlans(c)
        \/ GetNativeVlan(c)
        \/ AddVlan(c)
        \/ RemoveVlan(c)
        \/ RemoveAllVlans(c)
        \/ DisableNativeTag(c)
        \/ SetNativeVlan(c)
        \/ RemoveNativeVlan(c)
        \/ Return(c)

SpecAnyPort == Init /\ [][NextAnyPort]_vars

\* ------------------------------------------------ validating port names
\* A caller has a port name validated.
BeginValidate(c) ==
    /\ \A o \in Callers : pc[o] = "idle"
    /\ \E port \in PortStrings :
          call' = [call EXCEPT ![c] = Call("validate_port_name", port, "", 0)]
    /\ pc' = [pc EXCEPT ![c] = "validate_port_name"]
    /\ pre' = [pre EXCEPT ![c] = dev]
    /\ trace' = [trace EXCEPT ![c] = <<>>]
    /\ result' = [result EXCEPT ![c] = "none"]
    /\ ret' = [ret EXCEPT ![c] = NoRet]
    /\ UNCHANGED << dev, prev >>

InitValidate == Init /\ dev = NoDev

NextValidate ==
    \E c \in Callers :
        \/ BeginValidate(c)
        \/ ValidatePortName(c)
        \/ Return(c)

SpecValidate == InitValidate /\ [][NextValidate]_vars

\* ------------------------------------------------ calls that are not serialized
\* The VLAN the racing calls work on.
RaceVlans == {1}

\* The calls that change whether the port is enabled and which mode it has.
RaceCalls ==
    { Call("_port_shutdown", i, "", 0) : i \in Interfaces }
    \cup { Call("_enable_and_set_mode", i, m, 0) : i \in Interfaces, m \in {"access", "trunk"} }
    \cup { Call(op, i, "", v) :
             op \in {"_add_vlan_to_trunk", "_set_native_vlan"},
             i \in Interfaces, v \in RaceVlans }

\* A caller invokes an operation while another call may be running: the
\* driver takes no lock.
BeginRace(c) ==
    /\ pc[c] = "idle"
    /\ \E k \in RaceCalls :
          /\ call' = [call EXCEPT ![c] = k]
          /\ pc' = [pc EXCEPT ![c] = Entry(k.op)]
    /\ pre' = [pre EXCEPT ![c] = dev]
    /\ trace' = [trace EXCEPT ![c] = <<>>]
    /\ result' = [result EXCEPT ![c] = "none"]
    /\ ret' = [ret EXCEPT ![c] = NoRet]
    /\ UNCHANGED << dev, prev >>

\* Each caller makes one call.
NextRace ==
    \E c \in Callers :
        \/ BeginRace(c)
        \/ PortShutdown(c)
        \/ IsInterfaceOff(c)
        \/ EnableNoShutdown(c)
        \/ EnableSwitchport(c)
        \/ EnableSetMode(c)
        \/ AddVlan(c)
        \/ DisableNativeTag(c)
        \/ SetNativeVlan(c)

\* The port starts with no VLAN configured.
InitRace == Init /\ dev.allowed = {} /\ dev.native = 0

SpecRace == InitRace /\ [][NextRace]_vars

\* ------------------------------------------------------------------ typing
TypeOK ==
    /\ dev \in DeviceStates
    /\ \A c \in Callers : call[c] \in Calls \cup {NoCall}
    /\ \A c \in Callers : result[c] \in {"none", "ok", "SwitchError", "AssertionError",
                                          "AttributeError", "TypeError"}

\* ------------------------------------------------- reading a call's requests
Done(c) == pc[c] = "done"

\* What a request asks of the switch, by its method, resource and body.
Kind(req) ==
    LET m == req.method
        p == req.url.path
    IN  CASE m = "GET" /\ p = <<>> -> "read-shutdown"
          [] m = "GET" /\ p = <<"switchport", "mode">> -> "read-mode"
          [] m = "GET" /\ p = <<"switchport", "trunk">> -> "read-trunk"
          [] m = "DELETE" /\ p = <<"shutdown">> -> "clear-shutdown"
          [] m = "POST" /\ p = <<>> /\ HasElement(req.data, <<"shutdown">>) -> "set-shutdown"
          [] m = "POST" /\ p = <<>> /\ HasElement(req.data, <<"switchport">>) -> "enable-switching"
          [] m = "PUT" /\ p = <<"switchport", "mode">> -> "set-mode"
          [] m = "PUT" /\ p = <<"switchport", "trunk", "allowed", "vlan">>
               /\ HasElement(req.data, <<"vlan", "add">>) -> "add-vlan"
          [] m = "PUT" /\ p = <<"switchport", "trunk", "allowed", "vlan">>
               /\ HasElement(req.data, <<"vlan", "remove">>) -> "remove-vlan"
          [] m = "PUT" /\ p = <<"switchport", "trunk", "allowed", "vlan">>
               /\ HasElement(req.data, <<"vlan", "none">>) -> "clear-vlans"
          [] m = "PUT" /\ p = <<"switchport", "trunk">> -> "set-native"
          [] m = "DELETE" /\ p = <<"switchport", "trunk", "native-vlan">> -> "clear-native"
          [] m = "DELETE" /\ p = <<"switchport", "trunk", "tag", "native-vlan">> -> "disable-tag"
          [] OTHER -> "other"

Kinds(c) == [i \in 1..Len(trace[c]) |-> Kind(trace[c][i].req)]
IsPrefix(s, t) == Len(s) <= Len(t) /\ s = SubSeq(t, 1, Len(s))

\* The status codes the sequencer of section 4.4 tolerates at a step.
Tolerated(kind) ==
    CASE kind \in {"set-shutdown", "enable-switching"} -> {409}
      [] kind = "disable-tag" -> {404}
      [] OTHER -> {}

Mutators == {"_port_shutdown", "_enable_and_set_mode", "_add_vlan_to_trunk",
             "_remove_vlan_from_trunk", "_remove_all_vlans_from_trunk",
             "_set_native_vlan", "_remove_native_vlan"}

\* The switch did not fail internally during the call.
NoFault(c) == \A i \in 1..Len(trace[c]) : trace[c][i].status # 500

\* The request at position i set the mode to trunk and the switch accepted it.
TrunkSetAt(c, i) ==
    /\ Kind(trace[c][i].req) = "set-mode"
    /\ ElementText(trace[c][i].req.data, <<"mode", "vlan-mode">>) = "trunk"
    /\ trace[c][i].status < 400

\* -------------------------------------------------------------------- claims

\* C1: _enable_and_set_mode called with a mode that is neither 'access' nor
\* 'trunk' fails with BadArgumentError and issues no request at all; the
\* configuration of the port is unchanged.
C1_InvalidModeIssuesNothing ==
    \A c \in Callers :
        (call[c].op = "_enable_and_set_mode" /\ call[c].mode \notin {"access", "trunk"}) =>
            /\ trace[c] = <<>>
            /\ dev = pre[c]
            /\ Done(c) => result[c] = "BadArgumentError"

\* C2: in every mutator, a step the switch answers with a status code outside
\* the step's tolerated set ends the operation with SwitchError, and no later
\* step is issued.
C2_IntolerableStatusHalts ==
    \A c \in Callers :
        call[c].op \in Mutators =>
            \A i \in 1..Len(trace[c]) :
                (/\ trace[c][i].status >= 400
                 /\ trace[c][i].status \notin Tolerated(Kind(trace[c][i].req))) =>
                    /\ i = Len(trace[c])
                    /\ Done(c)
                    /\ result[c] = "SwitchError"

\* C3: in _add_vlan_to_trunk run by a single caller, the request adding the
\* VLAN is issued only after a request setting the mode to trunk was issued
\* and accepted; when the add request reaches the switch, the port is not shut
\* down, has switching enabled and is in trunk mode.
C3_ModeBeforeMembership ==
    \A c \in Callers :
        call[c].op = "_add_vlan_to_trunk" =>
            /\ \A i \in 1..Len(trace[c]) :
                  Kind(trace[c][i].req) = "add-vlan" =>
                      \E j \in 1..(i - 1) : TrunkSetAt(c, j)
            /\ pc[c] = "add_vlan" =>
                  /\ \E j \in 1..Len(trace[c]) : TrunkSetAt(c, j)
                  /\ dev.shutdown # "true"
                  /\ dev.switchport
                  /\ dev.mode = "trunk"

\* C3 witness: an _add_vlan_to_trunk whose add request was issued and accepted,
\* on a port that was shut down and had no switching when the call began.
C3_Witness ==
    \E c \in Callers :
        /\ call[c].op = "_add_vlan_to_trunk"
        /\ Done(c) /\ result[c] = "ok"
        /\ pre[c].shutdown = "true" /\ ~pre[c].switchport
        /\ Kind(trace[c][Len(trace[c])].req) = "add-vlan"

\* C4: in _set_native_vlan run by a single caller the steps come in the order
\* mode sequence forcing trunk, request disabling native-VLAN tagging (a 404
\* answer counts as success), request setting the native VLAN; the last one
\* is never issued before the port is in trunk mode and the tag-disable step
\* has completed.
C4_NativeVlanOrder ==
    \A c \in Callers :
        call[c].op = "_set_native_vlan" =>
            /\ \A i \in 1..Len(trace[c]) :
                  /\ Kind(trace[c][i].req) = "disable-tag" =>
                        /\ \E j \in 1..(i - 1) : TrunkSetAt(c, j)
                        /\ trace[c][i].status \in {200, 404} =>
                              (Len(trace[c]) > i \/ pc[c] = "set_native_vlan")
                  /\ Kind(trace[c][i].req) = "set-native" =>
                        /\ i > 1
                        /\ Kind(trace[c][i - 1].req) = "disable-tag"
                        /\ trace[c][i - 1].status \in {200, 404}
                        /\ ElementText(trace[c][i].req.data, <<"trunk", "native-vlan">>)
                              = ToString(call[c].vlan)
            /\ pc[c] \in {"disable_native_tag", "set_native_vlan"} => IsTrunk(dev)
            /\ pc[c] = "set_native_vlan" => ~dev.tag

\* C4 witness: a _set_native_vlan that succeeded although the switch answered
\* the tag-disable request with 404.
C4_Witness ==
    \E c \in Callers :
        /\ call[c].op = "_set_native_vlan"
        /\ Done(c) /\ result[c] = "ok"
        /\ \E i \in 1..Len(trace[c]) :
              Kind(trace[c][i].req) = "disable-tag" /\ trace[c][i].status = 404
        /\ Kind(trace[c][Len(trace[c])].req) = "set-native"

\* The requests _enable_and_set_mode has to issue, given what the read of the
\* shutdown flag reported.
ModeSequence(c) ==
    <<"read-shutdown">>
    \o (IF Len(trace[c]) >= 1 /\ trace[c][1].doc = { Leaf(<<"shutdown">>, <<"true">>) }
           THEN <<"clear-shutdown">> ELSE <<>>)
    \o <<"enable-switching", "set-mode">>

\* C5: _enable_and_set_mode with a valid mode issues, in this order: the read
\* of the shutdown flag; a shutdown-clear request if and only if the read
\* reported the port shut down; a switching-enable request whose 409 answer
\* counts as success; a request setting the mode to the requested value.
C5_ModeSequenceOrder ==
    \A c \in Callers :
        (call[c].op = "_enable_and_set_mode" /\ call[c].mode \in {"access", "trunk"}) =>
            /\ IsPrefix(Kinds(c), ModeSequence(c))
            /\ (Done(c) /\ result[c] = "ok") =>
                  /\ Kinds(c) = ModeSequence(c)
                  /\ ElementText(trace[c][Len(trace[c])].req.data, <<"mode", "vlan-mode">>)
                        = call[c].mode
            /\ \A i \in 1..Len(trace[c]) :
                  /\ Kind(trace[c][i].req) = "clear-shutdown" =>
                        /\ i = 2
                        /\ trace[c][1].doc = { Leaf(<<"shutdown">>, <<"true">>) }
                  /\ (Kind(trace[c][i].req) = "enable-switching" /\ trace[c][i].status = 409) =>
                        (Len(trace[c]) > i \/ pc[c] = "set_mode")

\* C5 witness: an _enable_and_set_mode that succeeded on a port that was shut
\* down and had switching enabled already: all four requests, 409 tolerated.
C5_Witness ==
    \E c \in Callers :
        /\ call[c].op = "_enable_and_set_mode"
        /\ Done(c) /\ result[c] = "ok"
        /\ Len(trace[c]) = 4
        /\ trace[c][3].status = 409

\* C6: _enable_and_set_mode called twice in a row with the same valid mode,
\* whatever the port was before the first call: the second call, to which the
\* switch answers the repeated switching-enable with 409, raises nothing and
\* leaves the port as the first call left it.
C6_RepeatedModeIsIdempotent ==
    \A c \in Callers :
        (/\ Done(c)
         /\ call[c].op = "_enable_and_set_mode"
         /\ call[c].mode \in {"access", "trunk"}
         /\ prev.op = "_enable_and_set_mode" /\ prev.mode = call[c].mode
         /\ prev.result = "ok"
         /\ NoFault(c)) =>
            /\ result[c] = "ok"
            /\ dev = pre[c]
            /\ \E i \in 1..Len(trace[c]) :
                  Kind(trace[c][i].req) = "enable-switching" /\ trace[c][i].status = 409

\* C6 witness: the second of two successful _enable_and_set_mode calls with
\* the same mode has returned.
C6_Witness ==
    \E c \in Callers :
        /\ Done(c) /\ result[c] = "ok"
        /\ call[c].op = "_enable_and_set_mode" /\ call[c].mode = "trunk"
        /\ prev.op = "_enable_and_set_mode" /\ prev.mode = "trunk" /\ prev.result = "ok"

\* C7: _port_shutdown issues one request, which sets the shutdown flag; when
\* the port is shut down already and the switch answers 409 the call
\* succeeds, so that repeating it leaves the port shut down and never raises.
C7_ShutdownIsIdempotent ==
    \A c \in Callers :
        call[c].op = "_port_shutdown" =>
            /\ Len(trace[c]) <= 1
            /\ Done(c) =>
                  /\ Kinds(c) = <<"set-shutdown">>
                  /\ ElementText(trace[c][1].req.data, <<"shutdown">>) = "true"
                  /\ NoFault(c) => (result[c] = "ok" /\ dev.shutdown = "true")
                  /\ pre[c].shutdown = "true" =>
                        (dev = pre[c] /\ trace[c][1].status \in {409, 500})

\* C7 witness: a _port_shutdown right after a successful _port_shutdown, which
\* the switch answered with 409, has returned without error.
C7_Witness ==
    \E c \in Callers :
        /\ Done(c) /\ result[c] = "ok"
        /\ call[c].op = "_port_shutdown"
        /\ prev.op = "_port_shutdown" /\ prev.result = "ok"
        /\ trace[c][1].status = 409

\* C8: the removals are idempotent: _remove_native_vlan on a port without a
\* native VLAN, and _remove_vlan_from_trunk of a VLAN that is not allowed,
\* raise nothing and leave the configuration unchanged, also when the switch
\* answers a non-2xx status because the target is absent.
C8_RemovalsAreIdempotent ==
    \A c \in Callers :
        (Done(c) /\ NoFault(c)) =>
            /\ (call[c].op = "_remove_native_vlan" /\ pre[c].native = 0) =>
                  (result[c] = "ok" /\ dev = pre[c])
            /\ (call[c].op = "_remove_vlan_from_trunk" /\ call[c].vlan \notin pre[c].allowed) =>
                  (result[c] = "ok" /\ dev = pre[c])

\* The entry of the list of _get_vlans for VLAN v.
VlanEntry(v) == [tag |-> "vlan/" \o ToString(v), vlan |-> ToString(v)]
Entries(l) == { l[i] : i \in 1..Len(l) }

\* C9: after a successful _add_vlan_to_trunk of v, _get_vlans contains the
\* entry of v; after a successful _remove_vlan_from_trunk of v that follows,
\* _get_vlans no longer contains it, and the other VLANs are those reported
\* before the add.
C9_AddThenRemoveVlan ==
    \A c \in Callers :
        /\ (Done(c) /\ call[c].op = "_add_vlan_to_trunk" /\ result[c] = "ok") =>
              /\ VlanEntry(call[c].vlan) \in Entries(VlanList(TrunkDoc(dev)))
              /\ ReportedVlans(dev) = ReportedVlans(pre[c]) \cup {ToString(call[c].vlan)}
        /\ (/\ Done(c) /\ call[c].op = "_get_vlans" /\ result[c] = "ok"
            /\ prev.op = "_add_vlan_to_trunk" /\ prev.result = "ok") =>
              /\ VlanEntry(prev.vlan) \in Entries(ret[c].l)
              /\ { e.vlan : e \in Entries(ret[c].l) } = prev.allowed \cup {ToString(prev.vlan)}
        /\ (/\ Done(c) /\ call[c].op = "_remove_vlan_from_trunk" /\ result[c] = "ok"
            /\ prev.op = "_add_vlan_to_trunk" /\ prev.vlan = call[c].vlan
            /\ prev.result = "ok") =>
              /\ VlanEntry(call[c].vlan) \notin Entries(VlanList(TrunkDoc(dev)))
              /\ ReportedVlans(dev) = prev.allowed \ {ToString(call[c].vlan)}

\* C9 witness: a successful removal of v right after a successful add of v,
\* on a port that has another VLAN allowed.
C9_Witness ==
    \E c \in Callers :
        /\ Done(c) /\ call[c].op = "_remove_vlan_from_trunk" /\ result[c] = "ok"
        /\ prev.op = "_add_vlan_to_trunk" /\ prev.vlan = call[c].vlan /\ prev.result = "ok"
        /\ ReportedVlans(dev) # {}

\* C10: after a successful _set_native_vlan of v, _get_native_vlan returns
\* ('vlan/native', v), the one native VLAN whatever it was before; after a
\* successful _remove_native_vlan that follows, it returns None.
C10_SetThenRemoveNative ==
    \A c \in Callers :
        /\ (Done(c) /\ call[c].op = "_set_native_vlan" /\ result[c] = "ok") =>
              ReportedNative(dev).l = << [tag |-> "vlan/native", vlan |-> ToString(call[c].vlan)] >>
        /\ (/\ Done(c) /\ call[c].op = "_get_native_vlan" /\ result[c] = "ok"
            /\ prev.op = "_set_native_vlan" /\ prev.result = "ok") =>
              /\ ret[c].kind = "tuple"
              /\ ret[c].l = << [tag |-> "vlan/native", vlan |-> ToString(prev.vlan)] >>
        /\ (Done(c) /\ call[c].op = "_remove_native_vlan" /\ result[c] = "ok") =>
              ReportedNative(dev) = NoRet
        /\ (/\ Done(c) /\ call[c].op = "_get_native_vlan" /\ result[c] = "ok"
            /\ prev.op = "_remove_native_vlan" /\ prev.result = "ok") =>
              ret[c] = NoRet

\* C10 witness: _get_native_vlan has returned right after a successful
\* _set_native_vlan on a port that had another native VLAN.
C10_Witness ==
    \E c \in Callers :
        /\ Done(c) /\ call[c].op = "_get_native_vlan" /\ result[c] = "ok"
        /\ prev.op = "_set_native_vlan" /\ prev.result = "ok"
        /\ ret[c].kind = "tuple"


\* The most requests a call of a mutator issues.
MostRequests(op) ==
    CASE op = "_enable_and_set_mode" -> 4
      [] op = "_add_vlan_to_trunk" -> 5
      [] op = "_set_native_vlan" -> 6
      [] OTHER -> 1

\* C11 as stated: every call of a mutator issues at least one and at most
\* three requests, the requests of the mode sequence included.
C11_OneToThreeRequests ==
    \A c \in Callers :
        call[c].op \in Mutators =>
            /\ Len(trace[c]) <= 3
            /\ Done(c) => Len(trace[c]) >= 1

\* C11 amended: every call of a mutator issues at least one and at most six
\* requests: one for _port_shutdown and the removals, at most four for
\* _enable_and_set_mode, five for _add_vlan_to_trunk, six for _set_native_vlan.
C11_OneToSixRequests ==
    \A c \in Callers :
        call[c].op \in Mutators =>
            /\ Len(trace[c]) <= MostRequests(call[c].op)
            /\ Len(trace[c]) <= 6
            /\ Done(c) => Len(trace[c]) >= 1

\* C11 witness: a _set_native_vlan on a port that was shut down has returned
\* after six requests.
C11_Witness ==
    \E c \in Callers :
        /\ call[c].op = "_set_native_vlan"
        /\ Done(c) /\ result[c] = "ok"
        /\ Len(trace[c]) = 6


\* The port-name grammar: two or three segments separated by '/', each a
\* non-empty string of digits.
PortGrammar(s) ==
    /\ Len(s) > 0
    /\ \A i \in 1..Len(s) : s[i] = "/" \/ IsDigit(s[i])
    /\ Cardinality({ i \in 1..Len(s) : s[i] = "/" }) \in {1, 2}
    /\ s[1] # "/" /\ s[Len(s)] # "/"
    /\ \A i \in 1..(Len(s) - 1) : ~(s[i] = "/" /\ s[i + 1] = "/")

\* C15: validate_port_name accepts exactly the strings digits '/' digits,
\* optionally followed by '/' digits, and raises BadArgumentError for every
\* other string.
C15_ValidatorAcceptsExactlyGrammar ==
    \A c \in Callers :
        (Done(c) /\ call[c].op = "validate_port_name") =>
            /\ result[c] \in {"ok", "BadArgumentError"}
            /\ result[c] = "ok" <=> PortGrammar(call[c].ifc)


\* C12: no request references a port name outside the port-name grammar: an
\* operation called with a malformed name raises BadArgumentError before any
\* request, and the configuration of the port is unchanged.
C12_MalformedPortIssuesNothing ==
    \A c \in Callers :
        /\ \A i \in 1..Len(trace[c]) : PortGrammar(trace[c][i].req.url.ifc)
        /\ (call[c] # NoCall /\ ~PortGrammar(call[c].ifc)) =>
              /\ trace[c] = <<>>
              /\ dev = pre[c]
              /\ Done(c) => result[c] = "BadArgumentError"


\* C13: _is_interface_off has three outcomes, decided by the response: False
\* when the document has no shutdown element, True when the element is there
\* with the text "true", SwitchError, and no boolean, when it is there with
\* any other text.
C13_ShutdownReadOutcomes ==
    \A c \in Callers :
        (/\ Done(c) /\ call[c].op = "_is_interface_off"
         /\ trace[c][1].status < 400) =>
            LET shutdown == { l \in trace[c][1].doc : l.path = <<"shutdown">> } IN
            /\ shutdown = {} =>
                  (result[c] = "ok" /\ ret[c].kind = "bool" /\ ret[c].b = FALSE)
            /\ shutdown = { Leaf(<<"shutdown">>, <<"true">>) } =>
                  (result[c] = "ok" /\ ret[c].kind = "bool" /\ ret[c].b = TRUE)
            /\ (shutdown # {} /\ shutdown # { Leaf(<<"shutdown">>, <<"true">>) }) =>
                  (result[c] = "SwitchError" /\ ret[c].kind # "bool")

\* C13 witness: _is_interface_off has raised SwitchError for a document whose
\* shutdown element reads "false".
C13_Witness ==
    \E c \in Callers :
        /\ Done(c) /\ call[c].op = "_is_interface_off"
        /\ trace[c][1].status = 200
        /\ trace[c][1].doc = { Leaf(<<"shutdown">>, <<"false">>) }
        /\ result[c] = "SwitchError"


\* C14: for _get_vlans and _get_native_vlan a successful response without the
\* nested elements (port not in trunk mode, no VLAN allowed, no native VLAN)
\* gives the empty list, respectively None, and no error; an error status on
\* the same read gives SwitchError and never the empty list or None.
C14_AbsenceIsNotAnError ==
    \A c \in Callers :
        /\ (Done(c) /\ call[c].op = "_get_vlans") =>
              /\ trace[c][1].status >= 400 =>
                    (result[c] = "SwitchError" /\ ret[c].kind # "list")
              /\ (/\ trace[c][1].status < 400
                  /\ \A l \in trace[c][1].doc : l.path # <<"allowed", "vlan", "add">>) =>
                    (result[c] = "ok" /\ ret[c].kind = "list" /\ ret[c].l = <<>>)
        /\ (Done(c) /\ call[c].op = "_get_native_vlan") =>
              /\ trace[c][1].status >= 400 => result[c] = "SwitchError"
              /\ (/\ trace[c][1].status < 400
                  /\ \A l \in trace[c][1].doc : l.path # <<"native-vlan">>) =>
                    (result[c] = "ok" /\ ret[c] = NoRet)

\* C14 witness: _get_vlans has returned the empty list for a port that is not
\* in trunk mode.
C14_Witness ==
    \E c \in Callers :
        /\ Done(c) /\ call[c].op = "_get_vlans"
        /\ dev.switchport /\ dev.mode = "access"
        /\ trace[c][1].status = 200
        /\ result[c] = "ok" /\ ret[c].l = <<>>


\* C17: whenever _remove_all_vlans_from_trunk returns without error, no VLAN
\* is allowed on the port any more and _get_vlans reports the empty list,
\* whatever was allowed before and whatever status the switch answered.
C17_RemoveAllLeavesNothing ==
    \A c \in Callers :
        (/\ Done(c) /\ call[c].op = "_remove_all_vlans_from_trunk"
         /\ result[c] = "ok") =>
            /\ dev.allowed = {}
            /\ VlanList(TrunkDoc(dev)) = <<>>


Readers == {"_is_interface_off", "_get_mode", "_get_vlans", "_get_native_vlan"}

\* C18: every reader issues exactly one request per call, a GET, and leaves
\* the configuration of the port as it is; what it returns is decided by the
\* configuration at that call alone, so a change made since an earlier read
\* shows in the next one.
C18_ReadersReadOnce ==
    \A c \in Callers :
        call[c].op \in Readers =>
            /\ Len(trace[c]) <= 1
            /\ dev = pre[c]
            /\ Done(c) =>
                  /\ Len(trace[c]) = 1
                  /\ trace[c][1].req.method = "GET"
                  /\ trace[c][1].req.data = <<>>
            /\ (Done(c) /\ trace[c][1].status < 400) =>
                  /\ call[c].op = "_is_interface_off" =>
                        /\ dev.shutdown = "absent" => (result[c] = "ok" /\ ~ret[c].b)
                        /\ dev.shutdown = "true" => (result[c] = "ok" /\ ret[c].b)
                        /\ dev.shutdown = "false" => result[c] = "SwitchError"
                  /\ (call[c].op = "_get_mode" /\ dev.switchport) =>
                        (result[c] = "ok" /\ ret[c].s = dev.mode)
                  /\ call[c].op = "_get_vlans" =>
                        /\ result[c] = "ok"
                        /\ Entries(ret[c].l) = { VlanEntry(v) : v \in dev.allowed }
                        /\ Len(ret[c].l) = Cardinality(dev.allowed)
                  /\ call[c].op = "_get_native_vlan" =>
                        /\ result[c] = "ok"
                        /\ dev.native = 0 => ret[c] = NoRet
                        /\ dev.native # 0 =>
                              ret[c].l = << [tag |-> "vlan/native", vlan |-> ToString(dev.native)] >>

\* C18 witness: _get_vlans, called after an _add_vlan_to_trunk changed the
\* port, has returned two VLANs that the switch wrote as one range.
C18_Witness ==
    \E c \in Callers :
        /\ Done(c) /\ call[c].op = "_get_vlans" /\ result[c] = "ok"
        /\ prev.op = "_add_vlan_to_trunk" /\ prev.result = "ok"
        /\ Len(ret[c].l) = 2
        /\ trace[c][1].doc = { Leaf(<<"allowed", "vlan", "add">>, <<"1", "-", "2">>) }


\* C19: the native VLAN and the allowed VLANs are separate: _set_native_vlan
\* and _remove_native_vlan leave what _get_vlans reports unchanged;
\* _add_vlan_to_trunk, _remove_vlan_from_trunk and
\* _remove_all_vlans_from_trunk leave what _get_native_vlan reports
\* unchanged; _get_vlans reports the native VLAN only when it is also allowed.
C19_NativeAndAllowedAreSeparate ==
    \A c \in Callers :
        /\ call[c].op \in {"_set_native_vlan", "_remove_native_vlan"} =>
              /\ ReportedVlans(dev) = ReportedVlans(pre[c])
              /\ dev.allowed = pre[c].allowed
        /\ call[c].op \in {"_add_vlan_to_trunk", "_remove_vlan_from_trunk",
                           "_remove_all_vlans_from_trunk"} =>
              /\ ReportedNative(dev) = ReportedNative(pre[c])
              /\ dev.native = pre[c].native
        /\ (dev.native # 0 /\ ToString(dev.native) \in ReportedVlans(dev)) =>
              dev.native \in dev.allowed
        /\ (/\ Done(c) /\ call[c].op = "_get_vlans" /\ result[c] = "ok"
            /\ dev.native \notin dev.allowed) =>
              \A i \in 1..Len(ret[c].l) : ret[c].l[i].vlan # ToString(dev.native)

\* C19 witness: a _set_native_vlan has succeeded on a trunk port where another
\* VLAN, and not the new native VLAN, is allowed.
C19_Witness ==
    \E c \in Callers :
        /\ Done(c) /\ call[c].op = "_set_native_vlan" /\ result[c] = "ok"
        /\ pre[c].allowed # {}
        /\ call[c].vlan \notin dev.allowed
        /\ pre[c].native # dev.native


\* The requests that only bring the port forward to an enabled trunk port.
ForwardKinds == {"read-shutdown", "clear-shutdown", "enable-switching", "set-mode"}

\* The call of c ended with SwitchError at its last request, of one of kinds.
FailedAt(c, kinds) ==
    /\ Done(c)
    /\ result[c] = "SwitchError"
    /\ trace[c] # <<>>
    /\ Kind(trace[c][Len(trace[c])].req) \in kinds
    /\ trace[c][Len(trace[c])].status >= 400

\* C20: when _add_vlan_to_trunk or _set_native_vlan ends with SwitchError at
\* its final request or at the tag-disable request, the earlier steps are not
\* undone: the port is not shut down, has switching enabled and is in trunk
\* mode, its allowed VLANs and native VLAN are those from before the call, and
\* every request before the failed one is a forward step.
C20_NoRollbackOnLateFailure ==
    \A c \in Callers :
        (/\ call[c].op \in {"_add_vlan_to_trunk", "_set_native_vlan"}
         /\ FailedAt(c, {"add-vlan", "disable-tag", "set-native"})) =>
            /\ dev.shutdown # "true"
            /\ dev.switchport
            /\ dev.mode = "trunk"
            /\ dev.allowed = pre[c].allowed
            /\ dev.native = pre[c].native
            /\ \E i \in 1..(Len(trace[c]) - 1) : TrunkSetAt(c, i)
            /\ \A i \in 1..(Len(trace[c]) - 1) :
                  Kind(trace[c][i].req) \in
                      ForwardKinds \cup
                      (IF Kind(trace[c][Len(trace[c])].req) = "set-native"
                         THEN {"disable-tag"} ELSE {})

\* C20 witness: a call on a port that was shut down, without switching, has
\* failed at its final request after clearing the shutdown, enabling
\* switching and setting trunk mode.
C20_Witness ==
    \E c \in Callers :
        /\ call[c].op \in {"_add_vlan_to_trunk", "_set_native_vlan"}
        /\ FailedAt(c, {"add-vlan", "set-native"})
        /\ pre[c].shutdown = "true"
        /\ ~pre[c].switchport
        /\ dev # pre[c]


\* Another caller's request of one of kinds was accepted by the switch after
\* the request of c at position i.
LandedAfter(c, i, kinds) ==
    \E o \in Callers \ {c} : \E j \in 1..Len(trace[o]) :
        /\ trace[o][j].seq > trace[c][i].seq
        /\ trace[o][j].status < 400
        /\ Kind(trace[o][j].req) \in kinds
        /\ Kind(trace[o][j].req) = "set-mode" =>
              ElementText(trace[o][j].req.data, <<"mode", "vlan-mode">>) = "access"

\* c is about to issue the final request of _add_vlan_to_trunk or
\* _set_native_vlan.
AtFinalRequest(c) == pc[c] \in {"add_vlan", "set_native_vlan"}

\* C16: without serialization, a caller can be about to issue the final
\* request of _add_vlan_to_trunk or _set_native_vlan on a port that is shut
\* down or not in trunk mode, or the shutdown-clear request on a port that is
\* not shut down; this happens only when another caller's request (shutdown,
\* mode access, shutdown-clear) was accepted after the caller's own shutdown
\* read or mode step, so never when the calls are serialized.
C16_RaceNeedsInterleaving ==
    \A c \in Callers :
        /\ (AtFinalRequest(c) /\ dev.shutdown = "true") =>
              /\ Kind(trace[c][1].req) = "read-shutdown"
              /\ LandedAfter(c, 1, {"set-shutdown"})
        /\ (AtFinalRequest(c) /\ ~(dev.switchport /\ dev.mode = "trunk")) =>
              \E i \in 1..Len(trace[c]) :
                  /\ TrunkSetAt(c, i)
                  /\ LandedAfter(c, i, {"set-mode"})
        /\ (pc[c] = "no_shutdown" /\ dev.shutdown # "true") =>
              /\ Kind(trace[c][1].req) = "read-shutdown"
              /\ LandedAfter(c, 1, {"clear-shutdown"})

\* C16 witness: _add_vlan_to_trunk is about to issue its add request on a port
\* in access mode, another caller's _enable_and_set_mode('access') having set
\* the mode after this caller's own mode step.
C16_Witness ==
    \E c \in Callers :
        /\ call[c].op = "_add_vlan_to_trunk"
        /\ pc[c] = "add_vlan"
        /\ dev.mode = "access"
        /\ \E o \in Callers \ {c} :
              /\ call[o].op = "_enable_and_set_mode" /\ call[o].mode = "access"
              /\ Done(o) /\ result[o] = "ok"
        /\ \E i \in 1..Len(trace[c]) : TrunkSetAt(c, i) /\ LandedAfter(c, i, {"set-mode"})

\* A _set_native_vlan about to issue its final request on a port shut down by
\* another caller after the mode step.
C16_ShutDownUnderSetNative ==
    \E c \in Callers :
        /\ call[c].op = "_set_native_vlan"
        /\ pc[c] = "set_native_vlan"
        /\ dev.shutdown = "true"
        /\ \E i \in 1..Len(trace[c]) : TrunkSetAt(c, i) /\ LandedAfter(c, i, {"set-shutdown"})

\* An _enable_and_set_mode about to clear the shutdown of a port that another
\* caller has already enabled.
C16_ClearOfEnabledPort ==
    \E c \in Callers :
        /\ call[c].op = "_enable_and_set_mode"
        /\ pc[c] = "no_shutdown"
        /\ dev.shutdown # "true"

====
